---- MODULE Spec2Model ----
(***************************************************************************)
(* The ingestion pipeline of cats-of-asia: pkg/ingestion/ingestor.go       *)
(* (IngestDirectory and its stages) over the store of                      *)
(* pkg/postgres/postgres_database.go and the schema of                     *)
(* migrations/20230918141811_init_schema.up.sql.                           *)
(*                                                                         *)
(* Two ingestion runs work on one directory and one store.  Every stage    *)
(* processes its candidates one at a time; every external call, database   *)
(* statement and file operation may fail.                                  *)
(***************************************************************************)
EXTENDS Integers, Sequences, FiniteSets, TLC

VARIABLES
    dir,          \* the scanned directory: source file name -> content hash, or "none"
    derivs,       \* derivative files on disk: <<name, suffix>> -> "none" | "file"
    locations,    \* rows of table locations
    coordinates,  \* rows of table coordinates
    images,       \* rows of table images
    seq,          \* the SERIAL sequences of the three tables
    verbose,      \* Ingestor.verbose
    pc,           \* per run: the stage IngestDirectory is in
    cands,        \* per run: the local variable `images` of IngestDirectory
    acc,          \* per run: the list the running stage is building
    tmp,          \* per run: locals of InsertImages (statement position, locId, coordId)
    result,       \* per run: what IngestDirectory returned
    g,            \* per run: history of the run (what it called, wrote, inserted)
    hist,         \* history across runs
    locs,         \* reverseGeocode on its own: locs[0].AddressComponents of the answer
    gc,           \* reverseGeocode on its own: the component loop (position, locals, outcome)
    disk,         \* resizeImage on its own: derivative path -> "none" | "partial" | "full"
    calls,        \* resizeImage on its own: the calls and removals made so far
    fname,        \* file names on their own: the name of a directory entry
    made,         \* file names on their own: the derivative names resizeImage computed
    seen,         \* file names on their own: the names the scanner looked at, and its verdict
    src,          \* image sizes on their own: width and height of the decoded source
    dst,          \* image sizes on their own: what resizeImage computed per target width
    web,          \* the web server's file.Close: the upload being closed, the files it deleted
    posts,        \* the publishing bot: rows of table posts
    sel           \* the publishing bot: what the calls of GetRandomUnusedImage returned

vars == <<dir, derivs, locations, coordinates, images, seq, verbose,
          pc, cands, acc, tmp, result, g, hist, locs, gc, disk, calls,
          fname, made, seen, src, dst, web, posts, sel>>

geoVars == <<locs, gc>>

rzVars == <<disk, calls>>

nameVars == <<fname, made, seen>>

dimVars == <<src, dst>>

pubVars == <<posts, sel>>

\* What the pipeline leaves alone: the state of the functions and programs
\* studied on their own.
units == <<geoVars, rzVars, nameVars, dimVars, web, pubVars>>

-----------------------------------------------------------------------------
(* Bounds *)

MaxFiles == 2

Names == 1..MaxFiles

Runs == {"r1", "r2"}

-----------------------------------------------------------------------------
(* The files that can appear in the directory, by content.  A content hash *)
(* stands for the bytes: equal hash, equal bytes, equal embedded metadata. *)

Hashes == {"h1", "h2", "h3", "h4", "h5"}

\* What exif.Decode / LatLong / DateTime yield for each content: the GPS pair,
\* the wall-clock reading, and the offset of the zone DateTime attaches to it
\* (time.Local, or the zone tag of the file).
Exif(h) ==
    CASE h = "h1" -> [hasGPS |-> TRUE,  hasTS |-> TRUE,  lat |-> 13, long |-> 100, wall |-> 14, zoneOff |-> 0]
      [] h = "h2" -> [hasGPS |-> TRUE,  hasTS |-> TRUE,  lat |-> 13, long |-> 100, wall |-> 3,  zoneOff |-> 2]
      [] h = "h3" -> [hasGPS |-> TRUE,  hasTS |-> TRUE,  lat |-> 25, long |-> 121, wall |-> 14, zoneOff |-> 2]
      [] h = "h4" -> [hasGPS |-> FALSE, hasTS |-> TRUE,  lat |-> 0,  long |-> 0,   wall |-> 14, zoneOff |-> 0]
      [] h = "h5" -> [hasGPS |-> TRUE,  hasTS |-> FALSE, lat |-> 13, long |-> 100, wall |-> 0,  zoneOff |-> 0]
      [] h = "h6" -> [hasGPS |-> TRUE,  hasTS |-> TRUE,  lat |-> 62, long |-> 130, wall |-> 14, zoneOff |-> 0]
      [] h = "h7" -> [hasGPS |-> TRUE,  hasTS |-> TRUE,  lat |-> 67, long |-> 154, wall |-> 14, zoneOff |-> 0]

\* Two photographs taken in one administrative area that spans two time
\* zones (Yakutsk and Srednekolymsk, both in the Sakha Republic).
ZoneHashes == {"h6", "h7"}

-----------------------------------------------------------------------------
(* time.Time: an instant and the offset of its location, in hours.         *)

Time(inst, off) == [inst |-> inst, off |-> off]

\* t.Format(time.DateTime): the wall-clock reading of t in t's own location.
Format(t) == t.inst + t.off

\* The UTC offset of a zone (time.LoadLocation).
ZoneOffset(z) ==
    CASE z = "Asia/Bangkok"       -> 7
      [] z = "Asia/Taipei"        -> 8
      [] z = "Asia/Yakutsk"       -> 9
      [] z = "Asia/Srednekolymsk" -> 11
      [] OTHER                    -> 0

\* time.ParseInLocation(time.DateTime, w, z): the instant at which zone z reads w.
ParseInLocation(w, z) == Time(w - ZoneOffset(z), ZoneOffset(z))

\* t.UTC()
UTC(t) == Time(t.inst, 0)

\* What lands in a TIMESTAMP (without time zone) column when the driver sends t:
\* the reading of t in t's own location, the offset being discarded.
TimestampColumn(t) == Format(t)

-----------------------------------------------------------------------------
(* The external services.                                                  *)

\* Google Maps Timezone API: the zone of a coordinate.
TimeZoneID(lat, long) ==
    IF lat = 25 /\ long = 121 THEN "Asia/Taipei"
    ELSE IF lat = 62 /\ long = 130 THEN "Asia/Yakutsk"
    ELSE IF lat = 67 /\ long = 154 THEN "Asia/Srednekolymsk"
    ELSE "Asia/Bangkok"

\* Google Maps reverse geocoding: the address components of the first result.
\* Labels the API returns in Thai script are written "th:" and their romanisation.
AddressComponents(lat, long) ==
    IF lat = 25 /\ long = 121
    THEN << [Types |-> <<"neighborhood">>, LongName |-> "Daan"],
            [Types |-> <<"administrative_area_level_1">>, LongName |-> "Taipei City"],
            [Types |-> <<"country">>, LongName |-> "Taiwan"] >>
    ELSE IF lat \in {62, 67}
    THEN << [Types |-> <<"administrative_area_level_1">>, LongName |-> "Sakha Republic"],
            [Types |-> <<"country">>, LongName |-> "Russia"] >>
    ELSE << [Types |-> <<"administrative_area_level_1">>, LongName |-> "th:Krung Thep Maha Nakhon"],
            [Types |-> <<"country">>, LongName |-> "Thailand"] >>

-----------------------------------------------------------------------------
(* coa.Image, the in-flight candidate.                                     *)

\* A path is <<source file name, suffix>>; the source file itself has suffix "".
NoPath == <<0, "">>

\* A locator of the upload sink; NoURL is the nil *url.URL.
NoURL == <<0, "", 0>>

imageSuffixSmall == "-small"

imageSuffixMedium == "-medium"

\* The coa.Image collectFileInfo builds for file n with content h.
NewImage(n, h) ==
    [ PathLarge    |-> <<n, "">>,
      PathMedium   |-> NoPath,
      PathSmall    |-> NoPath,
      URLLarge     |-> NoURL,
      URLMedium    |-> NoURL,
      URLSmall     |-> NoURL,
      SHA256       |-> h,
      Timestamp    |-> Time(Exif(h).wall - Exif(h).zoneOff, Exif(h).zoneOff),
      Timezone     |-> "",
      Latitude     |-> Exif(h).lat,
      Longitude    |-> Exif(h).long,
      City         |-> "",
      Country      |-> "",
      CoordinateID |-> 0 ]

NameOf(img) == img.PathLarge[1]

NamesOf(imgs) == [i \in 1..Len(imgs) |-> NameOf(imgs[i])]

\* collectFileInfo with `continue` where it returns the metadata error.
RECURSIVE ScanFromSkip(_, _, _)
ScanFromSkip(d, n, out) ==
    IF n > MaxFiles THEN [err |-> "", images |-> out]
    ELSE IF d[n] = "none" THEN ScanFromSkip(d, n + 1, out)
    ELSE IF ~Exif(d[n]).hasGPS \/ ~Exif(d[n]).hasTS THEN ScanFromSkip(d, n + 1, out)
    ELSE ScanFromSkip(d, n + 1, Append(out, NewImage(n, d[n])))

\* The directory holds source files only: derivative files live in `derivs`,
\* and the scanner's suffix rule keeps them out of the candidates.
RECURSIVE ScanFrom(_, _, _)
ScanFrom(d, n, out) ==
    IF n > MaxFiles THEN [err |-> "", images |-> out]
    ELSE IF d[n] = "none" THEN ScanFrom(d, n + 1, out)
    ELSE IF ~Exif(d[n]).hasGPS THEN [err |-> "scan", images |-> <<>>]
    ELSE IF ~Exif(d[n]).hasTS THEN [err |-> "scan", images |-> <<>>]
    ELSE ScanFrom(d, n + 1, Append(out, NewImage(n, d[n])))

collectFileInfo(d) == ScanFrom(d, 1, <<>>)

\* A supported source file of the directory lacks the GPS or the timestamp tag.
HasBadFile(d) ==
    \E n \in Names : d[n] # "none" /\ (~Exif(d[n]).hasGPS \/ ~Exif(d[n]).hasTS)

-----------------------------------------------------------------------------
(* The store.                                                              *)

\* RemoveKnownImages taking every candidate for known.
RemoveKnownAll(imgs, rows) == <<>>

\* SELECT ... FROM images WHERE sha256 = ANY(hashes), then the filter loop.
RemoveKnownImages(imgs, rows) ==
    LET hashes == {imgs[i].SHA256 : i \in 1..Len(imgs)}
        knownImages == {row.sha256 : row \in {x \in rows : x.sha256 \in hashes}}
        keep(img) == img.SHA256 \notin knownImages
    IN  SelectSeq(imgs, keep)

\* SELECT id FROM coordinates WHERE latitude = $1 AND longitude = $2;
\* 0 stands for sql.ErrNoRows.
GetCoordinateID(rows, lat, long) ==
    LET hit == {row \in rows : row.latitude = lat /\ row.longitude = long}
    IN  IF hit = {} THEN 0 ELSE (CHOOSE row \in hit : TRUE).id

\* SELECT id FROM locations WHERE city = $1 and country = $2
GetLocationID(rows, city, country) ==
    LET hit == {row \in rows : row.city = city /\ row.country = country}
    IN  IF hit = {} THEN 0 ELSE (CHOOSE row \in hit : TRUE).id

\* The INSERT INTO locations without its conflict clause and constraint.
InsertLocationAlways(rows, id, city, country, timezone) ==
    rows \cup {[id |-> id, city |-> city, country |-> country, timezone |-> timezone]}

\* INSERT INTO locations ... ON CONFLICT (city, country) DO NOTHING
InsertLocation(rows, id, city, country, timezone) ==
    IF \E row \in rows : row.city = city /\ row.country = country
    THEN rows
    ELSE rows \cup {[id |-> id, city |-> city, country |-> country, timezone |-> timezone]}

\* The INSERT INTO coordinates without its conflict clause and constraint.
InsertCoordinatesAlways(rows, id, lat, long, locationId) ==
    rows \cup {[id |-> id, latitude |-> lat, longitude |-> long, location_id |-> locationId]}

\* INSERT INTO coordinates ... ON CONFLICT (latitude, longitude) DO NOTHING
InsertCoordinates(rows, id, lat, long, locationId) ==
    IF \E row \in rows : row.latitude = lat /\ row.longitude = long
    THEN rows
    ELSE rows \cup {[id |-> id, latitude |-> lat, longitude |-> long, location_id |-> locationId]}

\* images.sha256 without its UNIQUE constraint.
ImageConflictNever(rows, img) == FALSE

\* images.sha256 is UNIQUE: the INSERT of a stored hash is an error.
ImageConflict(rows, img) == \E row \in rows : row.sha256 = img.SHA256

\* InsertImages inside a transaction that is rolled back on error.
OnInsertErrorRollback(rows, own) == {row \in rows : row.id \notin own}

\* InsertImages returns the error of a statement: every statement is its own
\* transaction, so the rows the call has inserted (ids `own`) stay.
OnInsertError(rows, own) == rows

\* The INSERT INTO images with the hash argument left empty.
ImageRowNoHash(id, img, coordId) ==
    [ id            |-> id,
      path_large    |-> img.PathLarge,
      path_medium   |-> img.PathMedium,
      path_small    |-> img.PathSmall,
      sha256        |-> "",
      timestamp     |-> TimestampColumn(img.Timestamp),
      coordinate_id |-> coordId ]

\* The row INSERT INTO images(...) VALUES ($1..$6) writes.
ImageRow(id, img, coordId) ==
    [ id            |-> id,
      path_large    |-> img.PathLarge,
      path_medium   |-> img.PathMedium,
      path_small    |-> img.PathSmall,
      sha256        |-> img.SHA256,
      timestamp     |-> TimestampColumn(img.Timestamp),
      coordinate_id |-> coordId ]

-----------------------------------------------------------------------------
(* reverseGeocode: city and country out of the address components.         *)

\* The switch with nothing but its default case.
CityOverrideNone(label) == label

\* The switch on comp.LongName of an administrative_area_level_1 component.
CityOverride(label) ==
    CASE label = "th:Krung Thep Maha Nakhon"        -> "Bangkok"
      [] label = "th:Chiang Mai"                    -> "Chang Wat Chiang Mai"
      [] label = "Chang Wat Samut Prakan"           -> "Samut Prakan"
      [] label = "Wilayah Persekutuan Kuala Lumpur" -> "Kuala Lumpur"
      [] OTHER                                      -> label

\* One pass of the inner loop body, before its break test.
TypeStep(st, comp, t) ==
    IF t = "neighborhood"
    THEN [st EXCEPT !.neighborhood = comp.LongName]
    ELSE IF t = "administrative_area_level_1"
    THEN [st EXCEPT !.City = CityOverride(comp.LongName)]
    ELSE IF t = "country"
    THEN [st EXCEPT !.Country = comp.LongName,
                    !.City = IF comp.LongName = "Taiwan" THEN st.neighborhood ELSE st.City]
    ELSE st

\* for _, t := range comp.Types, with the break once both are set.
RECURSIVE TypesLoop(_, _, _)
TypesLoop(st, comp, j) ==
    IF j > Len(comp.Types) THEN st
    ELSE LET s2 == TypeStep(st, comp, comp.Types[j])
         IN  IF s2.City # "" /\ s2.Country # "" THEN s2 ELSE TypesLoop(s2, comp, j + 1)

\* for _, comp := range locs[0].AddressComponents
RECURSIVE CompLoop(_, _, _)
CompLoop(st, comps, i) ==
    IF i > Len(comps) THEN st ELSE CompLoop(TypesLoop(st, comps[i], 1), comps, i + 1)

CityAndCountry(comps) ==
    CompLoop([neighborhood |-> "", City |-> "", Country |-> ""], comps, 1)

-----------------------------------------------------------------------------
(* resizeImage on the derivative files.                                    *)

\* How one resizeImage call goes: "ok"; "fail" (os.Stat fails, or a directory
\* is in the way); "decfail" (the source does not decode); "encfail"
\* (os.Create made the file and the encoder failed).  `files` records which
\* files exist, which is all that os.Stat tells resizeImage.
ResizeOutcomes == {"ok", "fail", "decfail", "encfail"}

\* resizeImage that encodes without looking for the file first.
resizeImageAlways(files, n, suffix, outcome) ==
    LET pathResized == <<n, suffix>> IN
    IF outcome \in {"fail", "decfail"}
    THEN [err |-> TRUE, files |-> files, path |-> NoPath, wrote |-> {}, decoded |-> outcome = "decfail"]
    ELSE [err |-> outcome = "encfail", files |-> [files EXCEPT ![pathResized] = "file"],
          path |-> IF outcome = "encfail" THEN NoPath ELSE pathResized,
          wrote |-> {pathResized}, decoded |-> TRUE]

\* The derivative files after resizeImage(path, suffix), what it returned,
\* the files it created and whether it decoded the source.
resizeImage(files, n, suffix, outcome) ==
    LET pathResized == <<n, suffix>> IN
    IF outcome = "fail"
    THEN [err |-> TRUE, files |-> files, path |-> NoPath, wrote |-> {}, decoded |-> FALSE]
    ELSE IF files[pathResized] # "none"
    THEN [err |-> FALSE, files |-> files, path |-> pathResized, wrote |-> {}, decoded |-> FALSE]
    ELSE IF outcome = "decfail"
    THEN [err |-> TRUE, files |-> files, path |-> NoPath, wrote |-> {}, decoded |-> TRUE]
    ELSE IF outcome = "encfail"
    THEN [err |-> TRUE, files |-> [files EXCEPT ![pathResized] = "file"],
          path |-> NoPath, wrote |-> {pathResized}, decoded |-> TRUE]
    ELSE [err |-> FALSE, files |-> [files EXCEPT ![pathResized] = "file"],
          path |-> pathResized, wrote |-> {pathResized}, decoded |-> TRUE]

\* uploadFile: the locator the sink returns for a path.
uploadFile(path) == <<path[1], path[2], 1>>

-----------------------------------------------------------------------------
(* The per-item bodies of the stage loops.                                 *)

\* setCoordinateID that never attaches the id it found.
SetCoordStepNoID(list, img, coordID) == Append(list, img)

\* setCoordinateID that drops the candidates whose lookup found no row.
SetCoordStepDrop(list, img, coordID) ==
    IF coordID = 0
    THEN list
    ELSE Append(list, [img EXCEPT !.CoordinateID = coordID])

\* setCoordinateID, one pass: coordID = 0 is sql.ErrNoRows.
SetCoordStep(list, img, coordID) ==
    IF coordID = 0
    THEN Append(list, img)
    ELSE Append(list, [img EXCEPT !.CoordinateID = coordID])

\* The request timestamp getTimezoneID builds, and the zone the API answers.
getTimezoneID(t, lat, long) ==
    LET req == ParseInLocation(Format(t), "UTC")
    IN  TimeZoneID(lat, long)

\* fixTimezones converting the scanned instant instead of re-reading the wall clock.
FixTimezoneIn(img, tzID) ==
    [img EXCEPT !.Timestamp = UTC(Time(img.Timestamp.inst, ZoneOffset(tzID))), !.Timezone = tzID]

\* fixTimezones, one pass on a candidate without coordinate id.
FixTimezone(img, tzID) ==
    LET localTS == ParseInLocation(Format(img.Timestamp), tzID)
    IN  [img EXCEPT !.Timestamp = UTC(localTS), !.Timezone = tzID]

\* IngestDirectory treating "nothing new" as a failure.
AfterDedupError(filtered, v) ==
    [stop |-> Len(filtered) = 0, err |-> "dedup"]

\* IngestDirectory lines 121-124: whether the run ends right after the dedup,
\* and with which error.
AfterDedup(filtered, v) ==
    [stop |-> Len(filtered) = 0 /\ v, err |-> ""]

\* InsertImages: the statement the loop is at for item k.
StepFor(imgs, k) ==
    IF k > Len(imgs) THEN "end"
    ELSE IF imgs[k].CoordinateID = 0 THEN "loc"
    ELSE "img"

-----------------------------------------------------------------------------
(* State.                                                                  *)

Suffixes == {imageSuffixSmall, imageSuffixMedium}

T0 == [k |-> 1, step |-> "", locId |-> 0, coordId |-> 0]

R0 == [err |-> "", images |-> <<>>]

\* The history of one run.
G0 ==
    [ bad        |-> FALSE,   \* the scan met a supported file without GPS or timestamp tag
      stale      |-> FALSE,   \* a file was added after the scan
      prevOk     |-> FALSE,   \* a run without stage failure covered this directory before
      prevRan    |-> FALSE,   \* some run over this directory returned before
      known      |-> {},      \* the hashes stored when the dedup looked
      dedupEmpty |-> FALSE,
      failedAt   |-> "",      \* the first stage that failed
      coordIn    |-> <<>>,    \* the names given to setCoordinateID
      hit        |-> [n \in Names |-> 0],  \* the coordinate row found for a candidate
      miss       |-> {},      \* candidates whose coordinate lookup found no row
      tz         |-> {},      \* candidates a timezone call was made for
      geo        |-> {},      \* candidates a reverse-geocode call was made for
      wrote      |-> {},      \* derivative paths this run created
      uploaded   |-> {},      \* paths this run gave to the upload sink
      rows       |-> {} ]     \* ids of the image rows this run inserted

\* The locals of reverseGeocode's component loop; ret is "" while it runs.
GC0 == [i |-> 1, neighborhood |-> "", City |-> "", Country |-> "", ret |-> ""]

\* The functions studied on their own are not running.
GeocodeIdle ==
    /\ locs = <<>>
    /\ gc = GC0

ResizeIdle ==
    /\ disk = [p \in Names \X Suffixes |-> "none"]
    /\ calls = <<>>

NamesIdle ==
    /\ fname = ""
    /\ made = {}
    /\ seen = {}

SizesIdle ==
    /\ src = [X |-> 0, Y |-> 0]
    /\ dst = {}

\* No upload is being closed; nothing was deleted.
W0 == [name |-> 0, hash |-> "none", deleted |-> {}]

WebIdle == web = [r \in Runs |-> W0]

PublishIdle ==
    /\ posts = {}
    /\ sel = <<>>

UnitsIdle ==
    /\ GeocodeIdle
    /\ ResizeIdle
    /\ NamesIdle
    /\ SizesIdle
    /\ WebIdle
    /\ PublishIdle

\* No ingestion is running and the store is empty.
PipelineIdle ==
    /\ dir = [n \in Names |-> "none"]
    /\ derivs = [p \in Names \X Suffixes |-> "none"]
    /\ locations = {}
    /\ coordinates = {}
    /\ images = {}
    /\ seq = [locations |-> 0, coordinates |-> 0, images |-> 0]
    /\ verbose = FALSE
    /\ pc = [r \in Runs |-> "idle"]
    /\ cands = [r \in Runs |-> <<>>]
    /\ acc = [r \in Runs |-> <<>>]
    /\ tmp = [r \in Runs |-> T0]
    /\ result = [r \in Runs |-> R0]
    /\ g = [r \in Runs |-> G0]
    /\ hist = [ok |-> FALSE, ran |-> FALSE, missRows |-> {}]

pipeline == <<dir, derivs, locations, coordinates, images, seq, verbose,
              pc, cands, acc, tmp, result, g, hist>>

Init ==
    /\ UnitsIdle
    /\ dir = [n \in Names |-> "none"]
    /\ derivs = [p \in Names \X Suffixes |-> "none"]
    /\ locations = {}
    /\ coordinates = {}
    /\ images = {}
    /\ seq = [locations |-> 0, coordinates |-> 0, images |-> 0]
    /\ verbose \in BOOLEAN
    /\ pc = [r \in Runs |-> "idle"]
    /\ cands = [r \in Runs |-> <<>>]
    /\ acc = [r \in Runs |-> <<>>]
    /\ tmp = [r \in Runs |-> T0]
    /\ result = [r \in Runs |-> R0]
    /\ g = [r \in Runs |-> G0]
    /\ hist = [ok |-> FALSE, ran |-> FALSE, missRows |-> {}]

store == <<locations, coordinates, images, seq>>

\* IngestDirectory returns (imgs, err).
Finish(r, err, imgs, g2) ==
    /\ pc' = [pc EXCEPT ![r] = "done"]
    /\ result' = [result EXCEPT ![r] = [err |-> err, images |-> imgs]]
    /\ cands' = [cands EXCEPT ![r] = <<>>]
    /\ acc' = [acc EXCEPT ![r] = <<>>]
    /\ tmp' = [tmp EXCEPT ![r] = T0]
    /\ g' = [g EXCEPT ![r] = g2]

\* A stage fails: IngestDirectory returns (nil, err).
Fail(r, stage, g2) ==
    Finish(r, stage, <<>>, [g2 EXCEPT !.failedAt = IF @ = "" THEN stage ELSE @])

\* A stage has gone through its list: the next stage starts on what it built.
NextStage(r, stage, g2) ==
    /\ pc' = [pc EXCEPT ![r] = stage]
    /\ cands' = [cands EXCEPT ![r] = acc[r]]
    /\ acc' = [acc EXCEPT ![r] = <<>>]
    /\ tmp' = [tmp EXCEPT ![r] = [T0 EXCEPT !.step = IF stage = "insert" THEN StepFor(acc[r], 1) ELSE ""]]
    /\ g' = [g EXCEPT ![r] = g2]
    /\ UNCHANGED result

\* The loop of a stage moves to its next item with `list` built so far.
NextItem(r, list, g2) ==
    /\ acc' = [acc EXCEPT ![r] = list]
    /\ tmp' = [tmp EXCEPT ![r].k = @ + 1]
    /\ g' = [g EXCEPT ![r] = g2]
    /\ UNCHANGED <<pc, cands, result>>

AtEnd(r) == tmp[r].k > Len(cands[r])

\* The id of the coordinate row with exactly the pair of img, 0 when there is none.
ExistingCoordinate(img) ==
    LET same == {c \in coordinates : c.latitude = img.Latitude /\ c.longitude = img.Longitude}
    IN  IF same = {} THEN 0 ELSE (CHOOSE c \in same : TRUE).id

Item(r) == cands[r][tmp[r].k]

-----------------------------------------------------------------------------
(* Actions.                                                                *)

\* A new source file appears in the directory.
AddFile(n, h) ==
    /\ dir[n] = "none"
    /\ dir' = [dir EXCEPT ![n] = h]
    /\ g' = [r \in Runs |-> IF pc[r] = "idle" THEN g[r] ELSE [g[r] EXCEPT !.stale = TRUE]]
    /\ hist' = [hist EXCEPT !.ok = FALSE, !.ran = FALSE]
    /\ UNCHANGED <<units, derivs, store, verbose, pc, cands, acc, tmp, result>>

\* IngestDirectory is called: collectFileInfo.
Scan(r) ==
    /\ pc[r] = "idle"
    /\ LET g2 == [G0 EXCEPT !.bad = HasBadFile(dir),
                            !.prevOk = hist.ok,
                            !.prevRan = hist.ran]
       IN  \E ok \in BOOLEAN :
             LET got == collectFileInfo(dir) IN
             IF ~ok \/ got.err # ""
             THEN Fail(r, "scan", g2)
             ELSE /\ pc' = [pc EXCEPT ![r] = "dedup"]
                  /\ cands' = [cands EXCEPT ![r] = got.images]
                  /\ g' = [g EXCEPT ![r] = g2]
                  /\ UNCHANGED <<acc, tmp, result>>
    /\ UNCHANGED <<units, dir, derivs, store, verbose, hist>>

\* db.RemoveKnownImages and the test on its result.
Dedup(r) ==
    /\ pc[r] = "dedup"
    /\ \E ok \in BOOLEAN :
         IF ~ok
         THEN Fail(r, "dedup", g[r])
         ELSE LET filtered == RemoveKnownImages(cands[r], images)
                  g2 == [g[r] EXCEPT !.known = {row.sha256 : row \in images},
                                     !.dedupEmpty = (Len(filtered) = 0)]
                  ret == AfterDedup(filtered, verbose)
              IN  IF ret.stop
                  THEN IF ret.err = "" THEN Finish(r, "", filtered, g2)
                                       ELSE Fail(r, ret.err, g2)
                  ELSE /\ pc' = [pc EXCEPT ![r] = "resize"]
                       /\ cands' = [cands EXCEPT ![r] = filtered]
                       /\ g' = [g EXCEPT ![r] = g2]
                       /\ UNCHANGED <<acc, tmp, result>>
    /\ UNCHANGED <<units, dir, derivs, store, verbose, hist>>

\* resizeImages: the small, then the medium derivative of the next candidate.
Resize(r) ==
    /\ pc[r] = "resize"
    /\ IF AtEnd(r)
       THEN /\ NextStage(r, "coord", [g[r] EXCEPT !.coordIn = NamesOf(acc[r])])
            /\ UNCHANGED derivs
       ELSE \E o1, o2 \in ResizeOutcomes :
              LET img == Item(r)
                  n == NameOf(img)
                  small == resizeImage(derivs, n, imageSuffixSmall, o1)
                  medium == resizeImage(small.files, n, imageSuffixMedium, o2)
              IN  IF small.err
                  THEN /\ derivs' = small.files
                       /\ Fail(r, "resize", [g[r] EXCEPT !.wrote = @ \cup small.wrote])
                  ELSE IF medium.err
                  THEN /\ derivs' = medium.files
                       /\ Fail(r, "resize", [g[r] EXCEPT !.wrote = @ \cup small.wrote \cup medium.wrote])
                  ELSE /\ derivs' = medium.files
                       /\ NextItem(r, Append(acc[r], [img EXCEPT !.PathSmall = small.path,
                                                                 !.PathMedium = medium.path]),
                                   [g[r] EXCEPT !.wrote = @ \cup small.wrote \cup medium.wrote])
    /\ UNCHANGED <<units, dir, store, verbose, hist>>

\* setCoordinateID: the coordinate lookup of the next candidate.  An error
\* other than sql.ErrNoRows makes it return (nil, err); IngestDirectory logs
\* the error when verbose and goes on with the nil list.
SetCoordinateID(r) ==
    /\ pc[r] = "coord"
    /\ IF AtEnd(r)
       THEN NextStage(r, "tz", g[r])
       ELSE \E ok \in BOOLEAN :
              LET img == Item(r)
                  n == NameOf(img)
                  coordID == GetCoordinateID(coordinates, img.Latitude, img.Longitude)
              IN  IF ~ok
                  THEN /\ pc' = [pc EXCEPT ![r] = "tz"]
                       /\ cands' = [cands EXCEPT ![r] = <<>>]
                       /\ acc' = [acc EXCEPT ![r] = <<>>]
                       /\ tmp' = [tmp EXCEPT ![r] = T0]
                       /\ g' = [g EXCEPT ![r].failedAt = "coord"]
                       /\ UNCHANGED result
                  ELSE NextItem(r, SetCoordStep(acc[r], img, coordID),
                                [g[r] EXCEPT !.hit[n] = ExistingCoordinate(img),
                                             !.miss = IF ExistingCoordinate(img) = 0 THEN @ \cup {n} ELSE @])
    /\ UNCHANGED <<units, dir, derivs, store, verbose, hist>>

\* fixTimezones: the next candidate.
FixTimezones(r) ==
    /\ pc[r] = "tz"
    /\ IF AtEnd(r)
       THEN NextStage(r, "geo", g[r])
       ELSE LET img == Item(r) IN
            IF img.CoordinateID # 0
            THEN NextItem(r, Append(acc[r], img), g[r])
            ELSE \E ok \in BOOLEAN :
                   LET g2 == [g[r] EXCEPT !.tz = @ \cup {NameOf(img)}]
                       tzID == getTimezoneID(img.Timestamp, img.Latitude, img.Longitude)
                   IN  IF ~ok
                       THEN Fail(r, "tz", g2)
                       ELSE NextItem(r, Append(acc[r], FixTimezone(img, tzID)), g2)
    /\ UNCHANGED <<units, dir, derivs, store, verbose, hist>>

\* reverseGeocode: the next candidate.  The call fails ("err"), answers
\* without address components ("empty"), or answers with them ("ok").
ReverseGeocode(r) ==
    /\ pc[r] = "geo"
    /\ IF AtEnd(r)
       THEN NextStage(r, "upload", g[r])
       ELSE LET img == Item(r) IN
            IF img.CoordinateID # 0
            THEN NextItem(r, Append(acc[r], img), g[r])
            ELSE \E answer \in {"err", "empty", "ok"} :
                   LET g2 == [g[r] EXCEPT !.geo = @ \cup {NameOf(img)}]
                       comps == IF answer = "ok"
                                THEN AddressComponents(img.Latitude, img.Longitude)
                                ELSE <<>>
                       st == CityAndCountry(comps)
                   IN  IF answer = "err" \/ Len(comps) = 0 \/ st.City = "" \/ st.Country = ""
                       THEN Fail(r, "geo", g2)
                       ELSE NextItem(r, Append(acc[r], [img EXCEPT !.City = st.City,
                                                                   !.Country = st.Country]), g2)
    /\ UNCHANGED <<units, dir, derivs, store, verbose, hist>>

\* uploadImages: the large, medium and small file of the next candidate;
\* `sent` of the three uploads succeed.
Upload(r) ==
    /\ pc[r] = "upload"
    /\ IF AtEnd(r)
       THEN NextStage(r, "insert", g[r])
       ELSE \E sent \in 0..3 :
              LET img == Item(r)
                  paths == <<img.PathLarge, img.PathMedium, img.PathSmall>>
                  g2 == [g[r] EXCEPT !.uploaded = @ \cup {paths[i] : i \in 1..sent}]
              IN  IF sent < 3
                  THEN Fail(r, "upload", g2)
                  ELSE NextItem(r, Append(acc[r], [img EXCEPT !.URLLarge = uploadFile(img.PathLarge),
                                                              !.URLMedium = uploadFile(img.PathMedium),
                                                              !.URLSmall = uploadFile(img.PathSmall)]), g2)
    /\ UNCHANGED <<units, dir, derivs, store, verbose, hist>>

\* InsertImages, item k, GetOrCreateLocation: the INSERT ... ON CONFLICT DO NOTHING.
\* The sequences are modelled without the gaps that statements which insert
\* nothing leave: ids are only ever compared for equality.
InsertLoc(r) ==
    /\ pc[r] = "insert"
    /\ tmp[r].step = "loc"
    /\ \E ok \in BOOLEAN :
         IF ~ok
         THEN /\ Fail(r, "insert", g[r])
              /\ UNCHANGED store
         ELSE LET img == Item(r)
                  rows == InsertLocation(locations, seq.locations + 1, img.City, img.Country, img.Timezone)
              IN  /\ locations' = rows
                  /\ seq' = [seq EXCEPT !.locations = IF rows = locations THEN @ ELSE @ + 1]
                  /\ tmp' = [tmp EXCEPT ![r].step = "locRead"]
                  /\ UNCHANGED <<coordinates, images, pc, cands, acc, result, g>>
    /\ UNCHANGED <<units, dir, derivs, verbose, hist>>

\* GetOrCreateLocation: the SELECT id that reads the row back.
ReadLoc(r) ==
    /\ pc[r] = "insert"
    /\ tmp[r].step = "locRead"
    /\ \E ok \in BOOLEAN :
         LET img == Item(r)
             id == GetLocationID(locations, img.City, img.Country)
         IN  IF ~ok \/ id = 0
             THEN Fail(r, "insert", g[r])
             ELSE /\ tmp' = [tmp EXCEPT ![r].step = "coord", ![r].locId = id]
                  /\ UNCHANGED <<pc, cands, acc, result, g>>
    /\ UNCHANGED <<units, dir, derivs, store, verbose, hist>>

\* GetOrCreateCoordinates: the INSERT ... ON CONFLICT DO NOTHING.
InsertCoord(r) ==
    /\ pc[r] = "insert"
    /\ tmp[r].step = "coord"
    /\ \E ok \in BOOLEAN :
         IF ~ok
         THEN /\ Fail(r, "insert", g[r])
              /\ UNCHANGED store
         ELSE LET img == Item(r)
                  rows == InsertCoordinates(coordinates, seq.coordinates + 1,
                                            img.Latitude, img.Longitude, tmp[r].locId)
              IN  /\ coordinates' = rows
                  /\ seq' = [seq EXCEPT !.coordinates = IF rows = coordinates THEN @ ELSE @ + 1]
                  /\ tmp' = [tmp EXCEPT ![r].step = "coordRead"]
                  /\ UNCHANGED <<locations, images, pc, cands, acc, result, g>>
    /\ UNCHANGED <<units, dir, derivs, verbose, hist>>

\* GetOrCreateCoordinates: the SELECT id that reads the row back.
ReadCoord(r) ==
    /\ pc[r] = "insert"
    /\ tmp[r].step = "coordRead"
    /\ \E ok \in BOOLEAN :
         LET img == Item(r)
             id == GetCoordinateID(coordinates, img.Latitude, img.Longitude)
         IN  IF ~ok \/ id = 0
             THEN Fail(r, "insert", g[r])
             ELSE /\ tmp' = [tmp EXCEPT ![r].step = "img", ![r].coordId = id]
                  /\ UNCHANGED <<pc, cands, acc, result, g>>
    /\ UNCHANGED <<units, dir, derivs, store, verbose, hist>>

\* InsertImages, item k: the INSERT INTO images, then the next item.
InsertImage(r) ==
    /\ pc[r] = "insert"
    /\ tmp[r].step = "img"
    /\ \E ok \in BOOLEAN :
         LET img == Item(r)
             coordId == IF img.CoordinateID = 0 THEN tmp[r].coordId ELSE img.CoordinateID
             id == seq.images + 1
         IN  IF ~ok \/ ImageConflict(images, img)
             THEN /\ Fail(r, "insert", g[r])
                  /\ images' = OnInsertError(images, g[r].rows)
                  /\ UNCHANGED <<locations, coordinates, seq, hist>>
             ELSE /\ images' = images \cup {ImageRow(id, img, coordId)}
                  /\ seq' = [seq EXCEPT !.images = id]
                  /\ tmp' = [tmp EXCEPT ![r] = [T0 EXCEPT !.k = tmp[r].k + 1,
                                                          !.step = StepFor(cands[r], tmp[r].k + 1)]]
                  /\ g' = [g EXCEPT ![r].rows = @ \cup {id}]
                  /\ hist' = [hist EXCEPT !.missRows = IF img.CoordinateID = 0 THEN @ \cup {id} ELSE @]
                  /\ UNCHANGED <<locations, coordinates, pc, cands, acc, result>>
    /\ UNCHANGED <<units, dir, derivs, verbose>>

\* InsertImages has gone through the list: IngestDirectory returns (images, nil).
InsertImagesReturn(r) ==
    /\ pc[r] = "insert"
    /\ tmp[r].step = "end"
    /\ Finish(r, "", cands[r], g[r])
    /\ UNCHANGED <<units, dir, derivs, store, verbose, hist>>

\* The caller has the result; the Ingestor is free for the next call.
Return(r) ==
    /\ pc[r] = "done"
    /\ pc' = [pc EXCEPT ![r] = "idle"]
    /\ result' = [result EXCEPT ![r] = R0]
    /\ hist' = [hist EXCEPT !.ran = IF g[r].stale THEN @ ELSE TRUE,
                            !.ok = IF ~g[r].stale /\ g[r].failedAt = "" THEN TRUE ELSE @]
    /\ g' = [g EXCEPT ![r] = G0]
    /\ UNCHANGED <<units, dir, derivs, store, verbose, cands, acc, tmp>>

\* One step of the IngestDirectory call r.
Step(r) ==
    \/ Scan(r)
    \/ Dedup(r)
    \/ Resize(r)
    \/ SetCoordinateID(r)
    \/ FixTimezones(r)
    \/ ReverseGeocode(r)
    \/ Upload(r)
    \/ InsertLoc(r)
    \/ ReadLoc(r)
    \/ InsertCoord(r)
    \/ ReadCoord(r)
    \/ InsertImage(r)
    \/ InsertImagesReturn(r)
    \/ Return(r)

\* One ingestion at a time, as the external scheduler is assumed to enforce;
\* files arrive between and during the runs.
Next ==
    \/ \E n \in Names, h \in Hashes : AddFile(n, h)
    \/ Step("r1")

Spec == Init /\ [][Next]_vars

\* One ingestion at a time over a directory that receives photographs taken
\* in one administrative area and two time zones.
NextZones ==
    \/ \E n \in Names, h \in ZoneHashes : AddFile(n, h)
    \/ Step("r1")

SpecZones == Init /\ [][NextZones]_vars

\* Run r takes a step in which something fails: an external call, a file
\* operation or a statement returns an error.
Faulty(r) ==
    \/ g[r].failedAt = "" /\ g'[r].failedAt # ""
    \/ pc[r] # "done" /\ pc'[r] = "done" /\ result'[r].err # ""

NoFault == \A r \in Runs : ~Faulty(r)

\* The directory is ingested again and again (each call runs to its return,
\* and the next one is made), and from some moment on nothing fails.
SpecRerun ==
    /\ Init
    /\ [][Next]_vars
    /\ WF_vars(Step("r1"))
    /\ <>[][NoFault]_vars

\* Two IngestDirectory calls over one directory and one store, each made once:
\* one after the other or overlapping.  Concurrent calls come from the web
\* server, whose Ingestor is built with verbose = false.  The calls being
\* alike, r1 is taken to be the one that scans first.
InitConcurrent ==
    /\ UnitsIdle
    /\ dir \in [Names -> Hashes \cup {"none"}]
    /\ derivs = [p \in Names \X Suffixes |-> "none"]
    /\ locations = {}
    /\ coordinates = {}
    /\ images = {}
    /\ seq = [locations |-> 0, coordinates |-> 0, images |-> 0]
    /\ verbose = FALSE
    /\ pc = [r \in Runs |-> "idle"]
    /\ cands = [r \in Runs |-> <<>>]
    /\ acc = [r \in Runs |-> <<>>]
    /\ tmp = [r \in Runs |-> T0]
    /\ result = [r \in Runs |-> R0]
    /\ g = [r \in Runs |-> G0]
    /\ hist = [ok |-> FALSE, ran |-> FALSE, missRows |-> {}]

ScanInTurn(r) ==
    /\ r = "r2" => pc["r1"] # "idle"
    /\ Scan(r)

NextConcurrent ==
    \E r \in Runs :
        \/ ScanInTurn(r)
        \/ Dedup(r)
        \/ Resize(r)
        \/ SetCoordinateID(r)
        \/ FixTimezones(r)
        \/ ReverseGeocode(r)
        \/ Upload(r)
        \/ InsertLoc(r)
        \/ ReadLoc(r)
        \/ InsertCoord(r)
        \/ ReadCoord(r)
        \/ InsertImage(r)
        \/ InsertImagesReturn(r)

SpecConcurrent == InitConcurrent /\ [][NextConcurrent]_vars

-----------------------------------------------------------------------------
(* reverseGeocode on its own: the component loop over one answer of the    *)
(* geocoder, one component per step.                                       *)

MaxComponents == 3

AreaLabels ==
    {"Taipei City", "th:Chiang Mai", "th:Krung Thep Maha Nakhon",
     "Chang Wat Samut Prakan", "Wilayah Persekutuan Kuala Lumpur", "Penang"}

CountryLabels == {"Taiwan", "Thailand", "Malaysia"}

\* The components an answer is made of, with the type lists the API gives them.
ComponentPool ==
    {[Types |-> <<"neighborhood", "political">>, LongName |-> "Daan"]}
    \cup {[Types |-> <<"administrative_area_level_1", "political">>, LongName |-> x] : x \in AreaLabels}
    \cup {[Types |-> <<"country", "political">>, LongName |-> y] : y \in CountryLabels}
    \cup {[Types |-> <<"postal_code">>, LongName |-> "10110"]}

KindOf(comp) == comp.Types[1]

\* The answers: up to MaxComponents components in any order, an answer
\* carrying at most one component of a kind.
ComponentLists ==
    {s \in UNION {[1..k -> ComponentPool] : k \in 0..MaxComponents} :
        \A i, j \in DOMAIN s : i # j => KindOf(s[i]) # KindOf(s[j])}

InitGeocode ==
    /\ PipelineIdle
    /\ locs \in ComponentLists
    /\ gc = GC0
    /\ ResizeIdle
    /\ NamesIdle
    /\ SizesIdle
    /\ WebIdle
    /\ PublishIdle

\* One pass of the outer loop: the types of component gc.i.
GeocodeComponent ==
    /\ gc.ret = ""
    /\ Len(locs) # 0
    /\ gc.i <= Len(locs)
    /\ gc' = [TypesLoop(gc, locs[gc.i], 1) EXCEPT !.i = gc.i + 1]
    /\ UNCHANGED <<pipeline, locs, rzVars, nameVars, dimVars, web, pubVars>>

\* The tests before and after the loop: no components, or city or country missing.
GeocodeReturn ==
    /\ gc.ret = ""
    /\ Len(locs) = 0 \/ gc.i > Len(locs)
    /\ gc' = [gc EXCEPT !.ret = IF Len(locs) = 0 \/ gc.City = "" \/ gc.Country = ""
                                 THEN "err" ELSE "ok"]
    /\ UNCHANGED <<pipeline, locs, rzVars, nameVars, dimVars, web, pubVars>>

NextGeocode ==
    \/ GeocodeComponent
    \/ GeocodeReturn

SpecGeocode == InitGeocode /\ [][NextGeocode]_vars

-----------------------------------------------------------------------------
(* resizeImage on its own: calls for any source and suffix, and removals   *)
(* of derivative files, with the content of the files on record.           *)

MaxCalls == 3

\* What os.Stat sees of the derivative files.
Exists(d) == [p \in DOMAIN d |-> IF d[p] = "none" THEN "none" ELSE "file"]

InitResize ==
    /\ PipelineIdle
    /\ UnitsIdle

\* One call resizeImage(path of n, suffix, width).
ResizeImageCall(n, suffix, outcome) ==
    /\ Len(calls) < MaxCalls
    /\ LET target == <<n, suffix>>
           res == resizeImage(Exists(disk), n, suffix, outcome)
           after == IF target \in res.wrote
                    THEN IF outcome = "encfail" THEN "partial" ELSE "full"
                    ELSE disk[target]
       IN  /\ disk' = [disk EXCEPT ![target] = after]
           /\ calls' = Append(calls, [ op      |-> "resize",
                                        target  |-> target,
                                        outcome |-> outcome,
                                        err     |-> res.err,
                                        path    |-> res.path,
                                        decoded |-> res.decoded,
                                        encoded |-> res.wrote # {},
                                        before  |-> disk[target],
                                        after   |-> after ])
    /\ UNCHANGED <<pipeline, geoVars, nameVars, dimVars, web, pubVars>>

\* A derivative file is deleted (the web server's cleanup after an upload).
RemoveDerivative(target) ==
    /\ Len(calls) < MaxCalls
    /\ disk[target] # "none"
    /\ disk' = [disk EXCEPT ![target] = "none"]
    /\ calls' = Append(calls, [ op      |-> "remove",
                                 target  |-> target,
                                 outcome |-> "ok",
                                 err     |-> FALSE,
                                 path    |-> NoPath,
                                 decoded |-> FALSE,
                                 encoded |-> FALSE,
                                 before  |-> disk[target],
                                 after   |-> "none" ])
    /\ UNCHANGED <<pipeline, geoVars, nameVars, dimVars, web, pubVars>>

NextResize ==
    \/ \E n \in Names, suffix \in Suffixes, outcome \in ResizeOutcomes :
           ResizeImageCall(n, suffix, outcome)
    \/ \E target \in Names \X Suffixes : RemoveDerivative(target)

SpecResize == InitResize /\ [][NextResize]_vars

-----------------------------------------------------------------------------
(* File names on their own: the scanner's tests on the name of a directory *)
(* entry and the derivative name resizeImage computes from a source name.  *)

MaxPieces == 3

\* What the names are put together from.
Pieces == {"cat", ".", "jpg", "jpeg", "JPG", "png", "-small", "-medium"}

RECURSIVE Join(_)
Join(q) == IF Len(q) = 0 THEN "" ELSE Head(q) \o Join(Tail(q))

\* The names of directory entries: up to MaxPieces pieces, one after the other.
FileNames ==
    {Join(q) : q \in UNION {[1..k -> Pieces] : k \in 1..MaxPieces}}

\* strings.HasSuffix
HasSuffix(str, suffix) ==
    /\ Len(str) >= Len(suffix)
    /\ SubSeq(str, Len(str) - Len(suffix) + 1, Len(str)) = suffix

\* strings.TrimSuffix
TrimSuffix(str, suffix) ==
    IF HasSuffix(str, suffix) THEN SubSeq(str, 1, Len(str) - Len(suffix)) ELSE str

\* filepath.Ext of a name without path separator: from the last dot on.
Ext(name) ==
    LET dots == {i \in 1..Len(name) : SubSeq(name, i, i) = "."}
    IN  IF dots = {} THEN ""
        ELSE SubSeq(name, CHOOSE i \in dots : \A j \in dots : j <= i, Len(name))

ToLowerChar(c) ==
    CASE c = "J" -> "j"
      [] c = "P" -> "p"
      [] c = "G" -> "g"
      [] c = "E" -> "e"
      [] OTHER   -> c

\* strings.ToLower
RECURSIVE ToLower(_)
ToLower(str) ==
    IF Len(str) = 0 THEN ""
    ELSE ToLowerChar(SubSeq(str, 1, 1)) \o ToLower(SubSeq(str, 2, Len(str)))

\* coa.IsSupportedMedia
IsSupportedMedia(filename) ==
    \/ HasSuffix(ToLower(filename), ".jpg")
    \/ HasSuffix(ToLower(filename), ".jpeg")

\* The skip rule testing the whole name, extension included.
SkipRuleOnName(name) ==
    \/ HasSuffix(name, imageSuffixSmall)
    \/ HasSuffix(name, imageSuffixMedium)

\* collectFileInfo: "skip resized images that may have been created in a previous run".
SkipRule(name) ==
    LET basename == TrimSuffix(name, Ext(name))
    IN  \/ HasSuffix(basename, imageSuffixSmall)
        \/ HasSuffix(basename, imageSuffixMedium)

\* collectFileInfo makes a candidate of the entry.
ScannerAccepts(name) == IsSupportedMedia(name) /\ ~SkipRule(name)

\* resizeImage: the base name of pathResized for the source name.
DerivativeName(name, suffix) ==
    LET ext == Ext(name)
        withoutExt == TrimSuffix(name, ext)
    IN  withoutExt \o suffix \o ext

InitNames ==
    /\ PipelineIdle
    /\ GeocodeIdle
    /\ ResizeIdle
    /\ SizesIdle
    /\ WebIdle
    /\ PublishIdle
    /\ fname \in FileNames
    /\ made = {}
    /\ seen = {}

\* resizeImage computes the derivative path of a candidate.
NameDerivative(suffix) ==
    /\ ScannerAccepts(fname)
    /\ DerivativeName(fname, suffix) \notin made
    /\ made' = made \cup {DerivativeName(fname, suffix)}
    /\ UNCHANGED <<pipeline, geoVars, rzVars, fname, seen, dimVars, web, pubVars>>

\* collectFileInfo looks at an entry of the directory: the file itself or a
\* derivative written next to it.
ScanName(name) ==
    /\ name \in {fname} \cup made
    /\ \A e \in seen : e.name # name
    /\ seen' = seen \cup {[name |-> name, accepted |-> ScannerAccepts(name)]}
    /\ UNCHANGED <<pipeline, geoVars, rzVars, fname, made, dimVars, web, pubVars>>

NextNames ==
    \/ \E suffix \in Suffixes : NameDerivative(suffix)
    \/ \E name \in {fname} \cup made : ScanName(name)

SpecNames == InitNames /\ [][NextNames]_vars

-----------------------------------------------------------------------------
(* Image sizes on their own: the size resizeImage gives the derivative of  *)
(* a decoded source, in Go's int arithmetic.                               *)

MaxDim == 8

imageWidthSmall == 300

imageWidthMedium == 600

\* Widths and heights of source images, in pixels: 1, and up to MaxDim steps of 150.
Dims == {1} \cup {150 * k : k \in 1..MaxDim}

\* height := src.Bounds().Max.Y / (src.Bounds().Max.X / width), and the
\* rectangle of dst.  Go's / on positive ints truncates; a zero divisor is a
\* run-time panic.
resizeDims(X, Y, width) ==
    IF X \div width = 0
    THEN [target |-> width, panic |-> TRUE, width |-> 0, height |-> 0]
    ELSE [target |-> width, panic |-> FALSE, width |-> width, height |-> Y \div (X \div width)]

InitSizes ==
    /\ PipelineIdle
    /\ GeocodeIdle
    /\ ResizeIdle
    /\ NamesIdle
    /\ WebIdle
    /\ PublishIdle
    /\ src \in [X : Dims, Y : Dims]
    /\ dst = {}

\* resizeImages asks for the small derivative of the source.
SizeSmall ==
    /\ dst = {}
    /\ dst' = {resizeDims(src.X, src.Y, imageWidthSmall)}
    /\ UNCHANGED <<pipeline, geoVars, rzVars, nameVars, src, web, pubVars>>

\* resizeImages asks for the medium derivative, the small one being made.
SizeMedium ==
    /\ \E d \in dst : d.target = imageWidthSmall /\ ~d.panic
    /\ \A d \in dst : d.target # imageWidthMedium
    /\ dst' = dst \cup {resizeDims(src.X, src.Y, imageWidthMedium)}
    /\ UNCHANGED <<pipeline, geoVars, rzVars, nameVars, src, web, pubVars>>

NextSizes ==
    \/ SizeSmall
    \/ SizeMedium

SpecSizes == InitSizes /\ [][NextSizes]_vars

-----------------------------------------------------------------------------
(* The web server: a WebDAV PUT writes a file into the upload directory,   *)
(* and file.Close ingests the directory and cleans up.  Its Ingestor is    *)
(* built with verbose = false.                                             *)

InitWeb ==
    /\ PipelineIdle
    /\ UnitsIdle

\* OpenFile with O_CREATE and the writes of one upload: file n with content h
\* is in the upload directory and is about to be closed.
Put(r, n, h) ==
    /\ pc[r] = "idle"
    /\ web[r].name = 0
    /\ dir[n] = "none"
    /\ dir' = [dir EXCEPT ![n] = h]
    /\ web' = [web EXCEPT ![r] = [name |-> n, hash |-> h, deleted |-> {}]]
    /\ hist' = [hist EXCEPT !.ok = FALSE, !.ran = FALSE]
    /\ UNCHANGED <<geoVars, rzVars, nameVars, dimVars, pubVars,
                   derivs, store, verbose, pc, cands, acc, tmp, result, g>>

\* file.Close calls IngestDirectory on the upload directory.
IngestOnClose(r) ==
    /\ web[r].name # 0
    /\ \/ Scan(r)
       \/ Dedup(r)
       \/ Resize(r)
       \/ SetCoordinateID(r)
       \/ FixTimezones(r)
       \/ ReverseGeocode(r)
       \/ Upload(r)
       \/ InsertLoc(r)
       \/ ReadLoc(r)
       \/ InsertCoord(r)
       \/ ReadCoord(r)
       \/ InsertImage(r)
       \/ InsertImagesReturn(r)

\* The paths file.cleanup passes to os.Remove, in order.
CleanupPaths(name, imgs) ==
    IF Len(imgs) = 0
    THEN << <<name, "">> >>
    ELSE [i \in 1..(3 * Len(imgs)) |->
            LET img == imgs[((i - 1) \div 3) + 1] IN
            CASE (i - 1) % 3 = 0 -> img.PathLarge
              [] (i - 1) % 3 = 1 -> img.PathMedium
              [] (i - 1) % 3 = 2 -> img.PathSmall]

\* The file at a path exists in the upload directory.
FileAt(d, dv, path) ==
    IF path[2] = "" THEN path[1] \in Names /\ d[path[1]] # "none"
    ELSE path \in DOMAIN dv /\ dv[path] # "none"

\* file.Close once IngestDirectory has returned: on an error nothing is
\* deleted; otherwise cleanup removes its paths one by one and stops at the
\* first os.Remove that fails, `k` removals having succeeded.
CloseCleanup(r) ==
    /\ pc[r] = "done"
    /\ web[r].name # 0
    /\ LET paths == IF result[r].err # "" THEN <<>>
                    ELSE CleanupPaths(web[r].name, result[r].images)
       IN  \E k \in 0..Len(paths) :
             LET removed == {paths[i] : i \in 1..k} IN
             /\ \A i \in 1..k : FileAt(dir, derivs, paths[i])
             /\ dir' = [n \in Names |-> IF <<n, "">> \in removed THEN "none" ELSE dir[n]]
             /\ derivs' = [p \in DOMAIN derivs |-> IF p \in removed THEN "none" ELSE derivs[p]]
             /\ web' = [web EXCEPT ![r] =
                          [ name    |-> 0,
                            hash    |-> "none",
                            deleted |-> {[ path     |-> p,
                                           uploaded |-> p = <<web[r].name, "">>,
                                           stored   |-> \E row \in images : row.sha256 = dir[p[1]] ]
                                         : p \in removed} ]]
    /\ pc' = [pc EXCEPT ![r] = "idle"]
    /\ result' = [result EXCEPT ![r] = R0]
    /\ hist' = [hist EXCEPT !.ran = IF g[r].stale THEN @ ELSE TRUE,
                            !.ok = IF ~g[r].stale /\ g[r].failedAt = "" THEN TRUE ELSE @]
    /\ g' = [g EXCEPT ![r] = G0]
    /\ UNCHANGED <<geoVars, rzVars, nameVars, dimVars, pubVars,
                   store, verbose, cands, acc, tmp>>

\* One upload at a time.
NextWeb ==
    \/ \E n \in Names, h \in Hashes : Put("r1", n, h)
    \/ IngestOnClose("r1")
    \/ CloseCleanup("r1")

SpecWeb == InitWeb /\ [][NextWeb]_vars

-----------------------------------------------------------------------------
(* The publishing bot: for each platform, GetRandomUnusedImage, Publish,   *)
(* InsertPost, over a store that ingestion has filled.                     *)

MaxSelections == 2

\* The rows of table platforms, by name.
Platforms == {"Mastodon", "X"}

PlatformID(platform) == IF platform = "Mastodon" THEN 1 ELSE 2

\* The content of the n-th photograph that was ingested.
PhotoHash(n) ==
    CASE n % 3 = 1 -> "h1"
      [] n % 3 = 2 -> "h3"
      [] n % 3 = 0 -> "h2"

\* The store after InsertImages has stored the photographs 1..k, one by one.
RECURSIVE StoreOf(_)
StoreOf(k) ==
    IF k = 0
    THEN [locations |-> {}, coordinates |-> {}, images |-> {},
          seq |-> [locations |-> 0, coordinates |-> 0, images |-> 0]]
    ELSE LET st == StoreOf(k - 1)
             scanned == NewImage(k, PhotoHash(k))
             fixed == FixTimezone(scanned, getTimezoneID(scanned.Timestamp, scanned.Latitude, scanned.Longitude))
             cc == CityAndCountry(AddressComponents(fixed.Latitude, fixed.Longitude))
             resized == [scanned EXCEPT !.PathSmall = <<k, imageSuffixSmall>>,
                                         !.PathMedium = <<k, imageSuffixMedium>>]
             img == [fixed EXCEPT !.City = cc.City, !.Country = cc.Country,
                                  !.PathSmall = resized.PathSmall,
                                  !.PathMedium = resized.PathMedium]
             known == GetCoordinateID(st.coordinates, img.Latitude, img.Longitude)
             ls == InsertLocation(st.locations, st.seq.locations + 1, img.City, img.Country, img.Timezone)
             locId == GetLocationID(ls, img.City, img.Country)
             cs == InsertCoordinates(st.coordinates, st.seq.coordinates + 1, img.Latitude, img.Longitude, locId)
             coordId == GetCoordinateID(cs, img.Latitude, img.Longitude)
         IN  IF known # 0
             THEN [st EXCEPT !.images = @ \cup {ImageRow(st.seq.images + 1, resized, known)},
                             !.seq.images = @ + 1]
             ELSE [locations   |-> ls,
                   coordinates |-> cs,
                   images      |-> st.images \cup {ImageRow(st.seq.images + 1, img, coordId)},
                   seq         |-> [locations   |-> IF ls = st.locations THEN st.seq.locations
                                                    ELSE st.seq.locations + 1,
                                    coordinates |-> IF cs = st.coordinates THEN st.seq.coordinates
                                                    ELSE st.seq.coordinates + 1,
                                    images      |-> st.seq.images + 1]]

\* A row of table posts; the id and timestamp columns are never read.
PostRow(imageId, platform) == [image_id |-> imageId, platform_id |-> PlatformID(platform)]

\* The bot starts on a store holding k photographs and some post rows for them.
InitPublish ==
    /\ GeocodeIdle
    /\ ResizeIdle
    /\ NamesIdle
    /\ SizesIdle
    /\ WebIdle
    /\ sel = <<>>
    /\ dir = [n \in Names |-> "none"]
    /\ derivs = [p \in Names \X Suffixes |-> "none"]
    /\ verbose = FALSE
    /\ pc = [r \in Runs |-> "idle"]
    /\ cands = [r \in Runs |-> <<>>]
    /\ acc = [r \in Runs |-> <<>>]
    /\ tmp = [r \in Runs |-> T0]
    /\ result = [r \in Runs |-> R0]
    /\ g = [r \in Runs |-> G0]
    /\ hist = [ok |-> FALSE, ran |-> FALSE, missRows |-> {}]
    /\ \E k \in 0..MaxFiles :
         /\ locations = StoreOf(k).locations
         /\ coordinates = StoreOf(k).coordinates
         /\ images = StoreOf(k).images
         /\ seq = StoreOf(k).seq
         /\ posts \in SUBSET {PostRow(i, pf) : i \in 1..k, pf \in Platforms}

\* The rows the query of GetRandomUnusedImage yields before ORDER BY random()
\* LIMIT 1: images joined to their coordinate and location, without those
\* that have a post row for the platform.
UnusedRows(platform) ==
    LET used == {p.image_id : p \in {x \in posts : x.platform_id = PlatformID(platform)}}
    IN  {[i |-> i, c |-> c, l |-> l] :
            i \in {x \in images : x.id \notin used},
            c \in coordinates,
            l \in locations} \cap
        {j \in [i : images, c : coordinates, l : locations] :
            j.i.coordinate_id = j.c.id /\ j.c.location_id = j.l.id}

\* The columns of the SELECT list, in order.
SelectColumns(j) ==
    << j.i.id, j.i.path_large, j.i.path_medium, j.i.path_small, j.i.sha256,
       j.i.timestamp, j.i.coordinate_id, j.c.latitude, j.c.longitude,
       j.l.city, j.l.country, j.l.timezone >>

\* The destinations handed to row.Scan, in order.
ScanDestinations ==
    << "ID", "PathLarge", "PathMedium", "PathSmall", "SHA256", "Timestamp",
       "Latitude", "Longitude", "City", "Country", "Timezone" >>

\* The zero coa.Image, as far as the bot reads it.
NoImage == [ID |-> 0, PathLarge |-> NoPath, SHA256 |-> ""]

\* database/sql Row.Scan: no row is sql.ErrNoRows; a row whose column count
\* differs from the number of destinations is an error; otherwise column i
\* is converted into destination i.
RowScan(rows, pick, dests) ==
    IF rows = {} THEN [err |-> "ErrNoRows", img |-> NoImage]
    ELSE LET cols == SelectColumns(pick) IN
         IF Len(cols) # Len(dests)
         THEN [err |-> "scan", img |-> NoImage]
         ELSE LET at(name) == cols[CHOOSE i \in 1..Len(dests) : dests[i] = name]
              IN  [err |-> "", img |-> [ID |-> at("ID"), PathLarge |-> at("PathLarge"),
                                        SHA256 |-> at("SHA256")]]

\* GetRandomUnusedImage(platform): the store answers or not; `pick` is the
\* row ORDER BY random() LIMIT 1 leaves.
GetRandomUnusedImage(platform, ok, pick) ==
    IF ~ok THEN [err |-> "store", img |-> NoImage]
    ELSE RowScan(UnusedRows(platform), pick, ScanDestinations)

\* INSERT INTO posts(image_id, platform_id)
InsertPost(rows, image, platform) == rows \cup {PostRow(image.ID, platform)}

\* One iteration of the loop of publish / Bot.post for the publisher of
\* `platform`: select, and when the selection returned no error, Publish
\* and, when that succeeded, InsertPost.
PublishOn(platform) ==
    /\ Len(sel) < MaxSelections
    /\ \E ok, pubOk, insOk \in BOOLEAN :
         LET rows == UnusedRows(platform) IN
         \E pick \in (IF ok /\ rows # {} THEN rows ELSE {0}) :
           LET got == GetRandomUnusedImage(platform, ok, pick)
               published == got.err = "" /\ pubOk
           IN  /\ sel' = Append(sel, [ platform  |-> platform,
                                       storeOk   |-> ok,
                                       unused    |-> {j.i.id : j \in rows},
                                       err       |-> got.err,
                                       image     |-> got.img.ID,
                                       published |-> published ])
               /\ posts' = IF published /\ insOk
                           THEN InsertPost(posts, got.img, platform)
                           ELSE posts
    /\ UNCHANGED <<pipeline, geoVars, rzVars, nameVars, dimVars, web>>

NextPublish == \E platform \in Platforms : PublishOn(platform)

SpecPublish == InitPublish /\ [][NextPublish]_vars

-----------------------------------------------------------------------------
(* Properties.                                                             *)

InFlight == {"resize", "coord", "tz", "geo", "upload", "insert"}

\* C1: in every reachable state of the store, whether the runs succeeded,
\* aborted part-way or overlapped, no two image rows share a content hash.
C1_HashUnique ==
    \A a, b \in images : a.sha256 = b.sha256 => a = b

\* A run is about to INSERT an image whose hash another writer has stored
\* since this run's dedup.
C1_Witness ==
    \E r \in Runs :
        /\ pc[r] = "insert"
        /\ tmp[r].step = "img"
        /\ \E row \in images : row.sha256 = Item(r).SHA256

\* C2 (as claimed): past the dedup stage no candidate has a byte-identical
\* twin, neither among the stored hashes the dedup saw nor among the other
\* candidates of the same scan.
C2_TwinsRemovedByDedup ==
    \A r \in Runs :
        pc[r] \in InFlight =>
            /\ \A i \in 1..Len(cands[r]) : cands[r][i].SHA256 \notin g[r].known
            /\ \A i, j \in 1..Len(cands[r]) :
                   i # j => cands[r][i].SHA256 # cands[r][j].SHA256

\* C3 (as claimed): a run over a directory that an earlier run has already
\* gone over, no file added since, inserts no image row and returns an empty list.
C3_SecondRunIngestsNothing ==
    \A r \in Runs :
        (pc[r] = "done" /\ g[r].prevRan) =>
            (g[r].rows = {} /\ result[r].images = <<>>)

\* C3 (amended): a run over a directory that an earlier run has gone over
\* without any stage failure, no file added since, inserts no image row and
\* returns an empty list.
C3_RunAfterCompleteRunIngestsNothing ==
    \A r \in Runs :
        (pc[r] = "done" /\ g[r].prevOk) =>
            (g[r].rows = {} /\ result[r].images = <<>>)

\* The second run over an ingested directory has returned.
C3_Witness ==
    \E r \in Runs :
        /\ pc[r] = "done"
        /\ g[r].prevOk
        /\ result[r].err = ""
        /\ images # {}

\* C4: a candidate whose exact pair was a coordinate row when setCoordinateID
\* looked gets no timezone call and no reverse-geocode call, and the image
\* row inserted for it references that coordinate row.
C4_CacheHit ==
    \A r \in Runs : \A n \in Names :
        g[r].hit[n] # 0 =>
            /\ n \notin g[r].tz
            /\ n \notin g[r].geo
            /\ \E c \in coordinates :
                   /\ c.id = g[r].hit[n]
                   /\ c.latitude = Exif(dir[n]).lat
                   /\ c.longitude = Exif(dir[n]).long
            /\ \A row \in images :
                   (row.id \in g[r].rows /\ row.path_large[1] = n) =>
                       row.coordinate_id = g[r].hit[n]

\* A cache-hit candidate has been inserted.
C4_Witness ==
    \E r \in Runs : \E n \in Names :
        /\ g[r].hit[n] # 0
        /\ \E row \in images : row.id \in g[r].rows /\ row.path_large[1] = n

\* C5: no two coordinate rows share a (latitude, longitude) pair and no two
\* location rows share a (city, country) pair.
C5_KeysUnique ==
    /\ \A a, b \in coordinates :
           (a.latitude = b.latitude /\ a.longitude = b.longitude) => a = b
    /\ \A a, b \in locations :
           (a.city = b.city /\ a.country = b.country) => a = b

\* Two images that both went through get-or-create share one coordinate row.
C5_Witness ==
    \E a, b \in images :
        /\ a # b
        /\ a.id \in hist.missRows
        /\ b.id \in hist.missRows
        /\ a.coordinate_id = b.coordinate_id

\* The UTC reading a wall-clock reading T has in the zone of a coordinate.
Corrected(h) ==
    Exif(h).wall - ZoneOffset(TimeZoneID(Exif(h).lat, Exif(h).long))

\* The candidates of run r that fixTimezones has handled.
PastTimezones(r) ==
    IF pc[r] = "tz" THEN {acc[r][i] : i \in 1..Len(acc[r])}
    ELSE IF pc[r] \in {"geo", "upload", "insert"}
    THEN {cands[r][i] : i \in 1..Len(cands[r])} \cup {acc[r][i] : i \in 1..Len(acc[r])}
    ELSE {}

\* C6: a cache-miss candidate with wall-clock reading T leaves fixTimezones
\* with the UTC instant T - o, o the offset of the resolved zone, whatever
\* zone the scan attached, and with that zone recorded; the image row holds
\* that instant (14:00 in Asia/Bangkok is stored as 07:00).
C6_TimezoneCorrected ==
    /\ \A r \in Runs : \A c \in PastTimezones(r) :
           c.CoordinateID = 0 =>
               /\ c.Timestamp = Time(Corrected(c.SHA256), 0)
               /\ c.Timezone = TimeZoneID(c.Latitude, c.Longitude)
    /\ \A row \in images :
           row.id \in hist.missRows =>
               /\ row.timestamp = Corrected(row.sha256)
               /\ row.sha256 = "h1" => row.timestamp = 7

\* Rows of cache-miss images are stored, one scanned in zone UTC and one in
\* a zone two hours east of it.
C6_Witness ==
    /\ \E row \in images : row.id \in hist.missRows /\ Exif(row.sha256).zoneOff = 2
    /\ \E row \in images : row.id \in hist.missRows /\ row.sha256 = "h1"

\* What a run has done outside itself.
NoEffect(r) ==
    /\ g[r].rows = {}
    /\ g[r].wrote = {}
    /\ g[r].tz = {}
    /\ g[r].geo = {}
    /\ g[r].uploaded = {}

C7_AbortedInScan ==
    \A r \in Runs :
        g[r].bad => (pc[r] = "done" /\ result[r].err = "scan" /\ NoEffect(r))

C7_ScanLeavesStore ==
    \A r \in Runs :
        (pc[r] = "idle" /\ g'[r].bad) => (store' = store /\ derivs' = derivs)

\* C7: when a supported source file lacks the GPS or the timestamp tag, the
\* run ends in the scan with an error, having inserted no row, written no
\* derivative and made no external call, and the store is as it was.
C7_MissingTagAborts ==
    []C7_AbortedInScan /\ [][C7_ScanLeavesStore]_vars

\* A run over a directory with a good and a tagless file has aborted, with
\* rows of an earlier run in the store.
C7_Witness ==
    \E r \in Runs :
        /\ g[r].bad
        /\ pc[r] = "done"
        /\ images # {}
        /\ \E n \in Names : dir[n] \in {"h1", "h2", "h3"}

\* C8 (as claimed): once a stage has failed the run executes nothing more and
\* returns that stage's error.
C8_FailFast ==
    \A r \in Runs :
        g[r].failedAt # "" => (pc[r] = "done" /\ result[r].err = g[r].failedAt)

\* C9: when no lookup fails, setCoordinateID hands on every candidate in the
\* order it got them, the not-found ones without coordinate id, and each
\* not-found candidate gets a timezone call and a reverse-geocode call.
C9_NotFoundIsKept ==
    \A r \in Runs :
        g[r].failedAt = "" =>
            /\ pc[r] \in {"tz", "geo", "upload", "insert"} =>
                   /\ NamesOf(cands[r]) = g[r].coordIn
                   /\ \A i \in 1..Len(cands[r]) :
                          NameOf(cands[r][i]) \in g[r].miss => cands[r][i].CoordinateID = 0
            /\ pc[r] = "tz" => Len(cands[r]) = Len(g[r].coordIn)
            /\ (pc[r] \in {"upload", "insert"} \/ (pc[r] = "done" /\ g[r].coordIn # <<>>)) =>
                   /\ g[r].miss \subseteq g[r].tz
                   /\ g[r].miss \subseteq g[r].geo
                   /\ g[r].miss \cup {n \in Names : g[r].hit[n] # 0}
                          = {g[r].coordIn[i] : i \in 1..Len(g[r].coordIn)}

\* A batch with a found and a not-found candidate has reached the upload.
C9_Witness ==
    \E r \in Runs :
        /\ pc[r] = "upload"
        /\ g[r].miss # {}
        /\ \E n \in Names : g[r].hit[n] # 0

\* C10: when the dedup keeps nothing, the run writes no derivative, makes no
\* call, uploads and inserts nothing, and returns an empty list without error,
\* with and without verbose.
C10_NothingNew ==
    \A r \in Runs :
        g[r].dedupEmpty =>
            /\ NoEffect(r)
            /\ cands[r] = <<>>
            /\ g[r].failedAt = ""
            /\ pc[r] = "done" => (result[r].err = "" /\ result[r].images = <<>>)

\* A run without verbose found every hash of the directory stored and returned.
C10_Witness ==
    \E r \in Runs :
        /\ g[r].dedupEmpty
        /\ pc[r] = "done"
        /\ ~verbose
        /\ images # {}

\* The long name of the component of a kind in an answer, "" when there is none.
LabelOf(s, kind) ==
    LET hit == {i \in DOMAIN s : KindOf(s[i]) = kind}
    IN  IF hit = {} THEN "" ELSE s[CHOOSE i \in hit : TRUE].LongName

\* C11 (as claimed): for an answer with a neighborhood, an
\* administrative_area_level_1 and a country component whose country is
\* Taiwan, in whatever order, reverseGeocode succeeds with the neighborhood's
\* long name as city.
C11_TaiwanUsesNeighborhood ==
    ( /\ gc.ret # ""
      /\ LabelOf(locs, "country") = "Taiwan"
      /\ LabelOf(locs, "neighborhood") # ""
      /\ LabelOf(locs, "administrative_area_level_1") # "" ) =>
        /\ gc.ret = "ok"
        /\ gc.City = LabelOf(locs, "neighborhood")

\* The fixed table of administrative-area labels and the cities they stand for.
OverrideTable ==
    { <<"th:Krung Thep Maha Nakhon", "Bangkok">>,
      <<"th:Chiang Mai", "Chang Wat Chiang Mai">>,
      <<"Chang Wat Samut Prakan", "Samut Prakan">>,
      <<"Wilayah Persekutuan Kuala Lumpur", "Kuala Lumpur">> }

C12_CityFromTable ==
    LET area == LabelOf(locs, "administrative_area_level_1")
        country == LabelOf(locs, "country")
    IN  (gc.ret # "" /\ area # "" /\ country \notin {"", "Taiwan"}) =>
            /\ gc.ret = "ok"
            /\ gc.Country = country
            /\ \A e \in OverrideTable : area = e[1] => gc.City = e[2]
            /\ (\A e \in OverrideTable : area # e[1]) => gc.City = area
            /\ area = "th:Chiang Mai" => gc.City = "Chang Wat Chiang Mai"

C12_SetStaysSet ==
    (gc.City # "" /\ gc.Country \notin {"", "Taiwan"}) =>
        (gc'.City = gc.City /\ gc'.Country = gc.Country)

SecondCall(i, j) ==
    /\ i < j
    /\ calls[i].op = "resize"
    /\ calls[j].op = "resize"
    /\ calls[j].target = calls[i].target
    /\ ~calls[i].err
    /\ \A k \in (i + 1)..(j - 1) :
           ~(calls[k].op = "remove" /\ calls[k].target = calls[i].target)

\* C13: a second resizeImage call for the same source and suffix, the
\* derivative of the first call still being there, decodes nothing, encodes
\* nothing, leaves the file as it is, and (os.Stat answering) returns the
\* path the first call returned.
C13_SecondResizeReuses ==
    \A i, j \in DOMAIN calls :
        SecondCall(i, j) =>
            /\ ~calls[j].decoded
            /\ ~calls[j].encoded
            /\ calls[j].after = calls[j].before
            /\ calls[j].before # "none"
            /\ calls[j].outcome # "fail" =>
                   (~calls[j].err /\ calls[j].path = calls[i].path)

\* The first call wrote the derivative and a second call for it has returned.
C13_Witness ==
    /\ Len(calls) >= 2
    /\ SecondCall(1, 2)
    /\ calls[1].encoded
    /\ calls[2].outcome = "ok"
    /\ calls[2].path = calls[1].path
    /\ disk[calls[1].target] = "full"

\* Run r takes the step in which InsertImages returns an error.
InsertFails(r) ==
    /\ pc[r] = "insert"
    /\ pc'[r] = "done"
    /\ result'[r].err # ""

C14_FailureStep ==
    \A r \in Runs :
        InsertFails(r) =>
            /\ images' = images
            /\ coordinates' = coordinates
            /\ locations' = locations
            /\ Cardinality(g[r].rows) = tmp[r].k - 1
            /\ \A i \in 1..(tmp[r].k - 1) :
                   \E row \in images' :
                       /\ row.id \in g[r].rows
                       /\ row.sha256 = cands[r][i].SHA256
            /\ \A i \in tmp[r].k..Len(cands[r]) :
                   ~\E row \in images' :
                       /\ row.id \in g[r].rows
                       /\ row.path_large = cands[r][i].PathLarge

C14_RowsStay ==
    /\ images \subseteq images'
    /\ coordinates \subseteq coordinates'
    /\ locations \subseteq locations'

\* C14: when InsertImages fails on item k, the run has inserted an image row
\* for each of the items 1..k-1 and for no item from k on, the failing step
\* changes no table, and no row of any table is ever removed or changed
\* afterwards.
C14_NoRollback ==
    [][C14_FailureStep /\ C14_RowsStay]_vars

\* InsertImages has failed on a later item after inserting a row for the first.
C14_Witness ==
    \E r \in Runs :
        /\ pc[r] = "done"
        /\ result[r].err = "insert"
        /\ g[r].rows # {}
        /\ \E row \in images : row.id \in g[r].rows

\* The hash of every source file of the directory is in exactly one image row.
Converged ==
    \A n \in Names :
        dir[n] # "none" => Cardinality({row \in images : row.sha256 = dir[n]}) = 1

\* A step that leaves the tables and the derivative files as they are.
Quiet ==
    /\ images' = images
    /\ coordinates' = coordinates
    /\ locations' = locations
    /\ derivs' = derivs

\* C15: with the directory run over again and again and the failures over,
\* a state is reached from which on the hash of every source file is in
\* exactly one image row and no run changes a table or a derivative file.
C15_RerunsConverge ==
    /\ <>[]Converged
    /\ <>[][Quiet]_vars

\* After a run over the directory that failed, a run over the same directory
\* has returned without error with every hash stored.
C15_Witness ==
    \E r \in Runs :
        /\ pc[r] = "done"
        /\ g[r].prevRan
        /\ ~g[r].prevOk
        /\ ~g[r].stale
        /\ g[r].failedAt = ""
        /\ g[r].rows # {}
        /\ Converged

StageOrder ==
    { <<"resize", "coord">>, <<"coord", "tz">>, <<"tz", "geo">>,
      <<"geo", "upload">>, <<"upload", "insert">> }

\* Run r moves from one stage into the next one of the order, the stage it
\* leaves having handled and handed on every candidate of its batch.
C16_NextStageAfterWholeBatch(r) ==
    \/ pc[r] = "idle" /\ pc'[r] = "dedup"
    \/ pc[r] = "dedup" /\ pc'[r] = "resize"
    \/ /\ <<pc[r], pc'[r]>> \in StageOrder
       /\ tmp[r].k = Len(cands[r]) + 1
       /\ Len(acc[r]) = Len(cands[r])
       /\ cands'[r] = acc[r]

\* Inside a stage run r handles the candidate at position k, scan order
\* being the order of the list, and moves to position k + 1.
C16_OneAtATime(r) ==
    /\ pc[r] \in {"resize", "coord", "tz", "geo", "upload"}
    /\ tmp[r].k <= Len(cands[r])
    /\ tmp'[r].k = tmp[r].k + 1
    /\ Len(acc'[r]) = Len(acc[r]) + 1
    /\ NameOf(acc'[r][Len(acc'[r])]) = NameOf(cands[r][tmp[r].k])
    /\ \A i \in 1..(Len(cands[r]) - 1) : NameOf(cands[r][i]) < NameOf(cands[r][i + 1])

\* Every candidate of the batch has been resized, resolved and uploaded.
C16_BatchReady(r) ==
    \A i \in 1..Len(cands[r]) :
        LET c == cands[r][i] IN
        /\ c.PathSmall # NoPath /\ c.PathMedium # NoPath
        /\ c.CoordinateID # 0 \/ (c.Timezone # "" /\ c.City # "" /\ c.Country # "")
        /\ c.URLLarge # NoURL /\ c.URLMedium # NoURL /\ c.URLSmall # NoURL

C16_Step ==
    \A r \in Runs :
        /\ (pc'[r] # pc[r] /\ pc'[r] \notin {"done", "idle"}) => C16_NextStageAfterWholeBatch(r)
        /\ (pc'[r] = pc[r] /\ pc[r] # "insert" /\ <<cands[r], acc[r], tmp[r]>> # <<cands'[r], acc'[r], tmp'[r]>>)
               => C16_OneAtATime(r)
        /\ g'[r].rows # g[r].rows /\ g'[r].rows # {} => (pc[r] = "insert" /\ C16_BatchReady(r))

\* C16 (as claimed): a run goes through scan, dedup, resize, coordinate
\* lookup, timezone correction, reverse geocoding, upload and insert in
\* this order, enters a stage only when the stage before has handled every
\* candidate of the batch, handles the candidates of a stage one at a time
\* in scan order, and inserts an image row only when every candidate of the
\* batch is resized, resolved and uploaded.
C16_StagesInOrder ==
    [][C16_Step]_vars

\* The insert-if-absent of a get-or-create call of run r has been made and
\* its read-back not yet.
AtReadBack(r, step) ==
    /\ pc[r] = "insert"
    /\ tmp[r].step = step

C17_OneRowOneId ==
    \A r \in Runs :
        pc[r] = "insert" /\ tmp[r].k <= Len(cands[r]) /\ Item(r).CoordinateID = 0 =>
            LET img == Item(r)
                locRows == {row \in locations : row.city = img.City /\ row.country = img.Country}
                coordRows == {row \in coordinates :
                                 row.latitude = img.Latitude /\ row.longitude = img.Longitude}
            IN  /\ tmp[r].step \in {"locRead", "coord", "coordRead", "img"} => Cardinality(locRows) = 1
                /\ tmp[r].step \in {"coord", "coordRead", "img"} =>
                       \A row \in locRows : row.id = tmp[r].locId
                /\ tmp[r].step \in {"coordRead", "img"} => Cardinality(coordRows) = 1
                /\ tmp[r].step = "img" => \A row \in coordRows : row.id = tmp[r].coordId

C17_ReadBackFinds ==
    \A r \in Runs :
        /\ AtReadBack(r, "locRead") => GetLocationID(locations, Item(r).City, Item(r).Country) # 0
        /\ AtReadBack(r, "coordRead") =>
               GetCoordinateID(coordinates, Item(r).Latitude, Item(r).Longitude) # 0

\* C17: when two runs get-or-create the same location or the same
\* coordinate, however their insert-if-absent and read-back statements
\* interleave, one row with the key exists after an insert-if-absent, the
\* read-back finds it, and both calls return the id of that row.
C17_GetOrCreateConverges ==
    /\ C17_OneRowOneId
    /\ C17_ReadBackFinds
    /\ \A r, q \in Runs :
           ( /\ pc[r] = "insert" /\ tmp[r].step = "img" /\ Item(r).CoordinateID = 0
             /\ pc[q] = "insert" /\ tmp[q].step = "img" /\ Item(q).CoordinateID = 0
             /\ Item(r).Latitude = Item(q).Latitude
             /\ Item(r).Longitude = Item(q).Longitude ) =>
               (tmp[r].coordId = tmp[q].coordId /\ tmp[r].locId = tmp[q].locId)

\* Both runs have made their two get-or-create calls for the same pair at
\* the same time, and both hold the ids.
C17_Witness ==
    /\ \A r \in Runs :
           /\ pc[r] = "insert"
           /\ tmp[r].step = "img"
           /\ tmp[r].k = 1
           /\ Item(r).CoordinateID = 0
           /\ tmp[r].coordId # 0
    /\ Item("r1").Latitude = Item("r2").Latitude
    /\ Item("r1").Longitude = Item("r2").Longitude
    /\ g["r1"].rows = {}
    /\ g["r2"].rows = {}

\* The exact pair of the source file n.
PairOf(n) == <<Exif(dir[n]).lat, Exif(dir[n]).long>>

\* C18 (as claimed): among the timezone calls of a run no two are for the
\* same exact pair, and neither among its reverse-geocode calls.
C18_OneCallPerPair ==
    \A r \in Runs :
        /\ \A n, m \in g[r].tz : n # m => PairOf(n) # PairOf(m)
        /\ \A n, m \in g[r].geo : n # m => PairOf(n) # PairOf(m)

\* C19 (as claimed): at most one IngestDirectory call is between its scan
\* and its return at any time.
C19_OneRunAtATime ==
    Cardinality({r \in Runs : pc[r] \notin {"idle", "done"}}) <= 1

\* The candidates the dedup of run r kept and the resize handed on.
Kept(r) == {g[r].coordIn[i] : i \in 1..Len(g[r].coordIn)}

\* The candidates run r has inserted an image row for.
Persisted(r) ==
    {n \in Names : \E row \in images : row.id \in g[r].rows /\ row.path_large[1] = n}

\* C20 (as claimed): a candidate gets its timezone call and then its
\* reverse-geocode call exactly when its coordinate lookup found no row, is
\* persisted only after it was resized, resolved and uploaded, and once the
\* run has returned it is persisted unless the run returned a stage's error.
C20_CandidateStates ==
    \A r \in Runs :
        /\ g[r].geo \subseteq g[r].tz
        /\ g[r].tz \subseteq g[r].miss
        /\ Persisted(r) \subseteq Kept(r)
        /\ \A n \in Persisted(r) : g[r].hit[n] # 0 \/ n \in g[r].geo
        /\ \A n \in Persisted(r) : <<n, "">> \in g[r].uploaded
        /\ (pc[r] = "done" /\ result[r].err = "") => Kept(r) \subseteq Persisted(r)

\* C21 (as claimed): every image row holds the corrected instant of its
\* image, the wall-clock reading of the file taken in the zone of its pair as
\* a UTC reading, whether the pair was found in the coordinates table or not.
C21_EveryRowCorrected ==
    \A row \in images : row.timestamp = Corrected(row.sha256)

\* C22 (as claimed): the three references of an image row are the locators
\* the upload sink returned for the large, medium and small file of the image.
C22_RowsHoldLocators ==
    \A row \in images :
        \E n \in Names :
            /\ row.path_large = uploadFile(<<n, "">>)
            /\ row.path_medium = uploadFile(<<n, imageSuffixMedium>>)
            /\ row.path_small = uploadFile(<<n, imageSuffixSmall>>)

\* C23: the scanner makes no candidate of a name resizeImage computed, for
\* either suffix, from a name the scanner accepted.
C23_DerivativesSkipped ==
    /\ \A e \in seen : e.name \in made => ~e.accepted
    /\ \A name \in made : name # fname /\ ~ScannerAccepts(name)

\* The scanner accepted a name and has looked at both derivative names of it.
C23_Witness ==
    /\ \E e \in seen : e.name = fname /\ e.accepted
    /\ Cardinality({e \in seen : e.name \in made}) = 2
    /\ Ext(fname) = ".JPG"

\* C24 (as claimed): a derivative resizeImage computed for target width w
\* from a source of width W and height H has width w and a height within one
\* pixel of H * w / W.
C24_AspectRatioKept ==
    \A d \in dst :
        ~d.panic =>
            /\ d.width = d.target
            /\ d.height * src.X - src.Y * d.target <= src.X
            /\ src.Y * d.target - d.height * src.X <= src.X

\* C25 (as claimed): for a source of positive width and height, resizeImage
\* computes the height without dividing by zero, and the height is positive.
C25_HeightPositive ==
    \A d \in dst : ~d.panic /\ d.height > 0

\* The location row an image row reaches through its coordinate row.
LocationOf(row) ==
    {l \in locations :
        \E c \in coordinates : c.id = row.coordinate_id /\ c.location_id = l.id}

\* C26 (as claimed): the location an image row reaches through its
\* coordinate carries the zone its timestamp was corrected with, the zone of
\* its pair; stated for the rows whose timestamp fixTimezones corrected.
C26_LocationZoneIsImageZone ==
    \A row \in images :
        row.id \in hist.missRows =>
            \A l \in LocationOf(row) :
                l.timezone = TimeZoneID(Exif(row.sha256).lat, Exif(row.sha256).long)

\* C27 (as claimed): a file that a resizeImage call finds at the derivative
\* path and returns without encoding is a complete encoding; no failed
\* encode leaves a file that a later call takes for the derivative.
C27_ReusedFileComplete ==
    \A j \in DOMAIN calls :
        (calls[j].op = "resize" /\ ~calls[j].err /\ ~calls[j].encoded) =>
            calls[j].before = "full"

\* C28 (as claimed): file.Close deletes the uploaded file only if the
\* file's content hash is stored in an image row; an upload whose ingestion
\* did not complete is never deleted.
C28_DeletedUploadIsStored ==
    \A r \in Runs :
        \A d \in web[r].deleted :
            d.uploaded => d.stored

\* C30 (as claimed): GetRandomUnusedImage(platform) returns without error an
\* image that has no post row for the platform whenever the store answers
\* and holds such an image; it returns an error only when there is no such
\* image or the store fails.
C30_UnusedImageReturned ==
    \A j \in DOMAIN sel :
        /\ (sel[j].storeOk /\ sel[j].unused # {}) =>
               (sel[j].err = "" /\ sel[j].image \in sel[j].unused)
        /\ sel[j].err # "" => (~sel[j].storeOk \/ sel[j].unused = {})

\* No iteration of the bot's loop gets as far as Publish.
PublishNeverCalled ==
    \A j \in DOMAIN sel : ~sel[j].published

====
